---- MODULE Spec2Model ----
(***************************************************************************)
(* Veritas (src/brain.py): the Streamlit session state (history, playback  *)
(* pointer, uploader id, url input), the scrape cache, and one script run  *)
(* of the analysis pipeline (scrape retry loop, primary analysis, backup   *)
(* deep search, image analysis, parse and save).                           *)
(*                                                                         *)
(* Text the code inspects character by character (URLs, page content,      *)
(* product names, textual scores) is a sequence of one-character strings.  *)
(* A page is a leading text followed by `pad` filler characters ".", so a  *)
(* 10,000-character page stays small; no phrase the code looks for holds   *)
(* a ".", so no match can reach into the filler.                           *)
(* The emoji that prefix the verdict labels in the source are left out.    *)
(***************************************************************************)
EXTENDS Integers, Sequences, FiniteSets, TLC

\* ------------------------------------------------------------------ bounds

MaxHistory == 2
MaxUploads == 1

\* ------------------------------------------------------- program constants

MAX_RETRIES == 3
MinContentLen == 500
DefaultScore == 35
MaxNameLen == 40
MaxSlugLen == 30
MinSlugLen == 3
AsinLen == 10

\* ------------------------------------------------------------ characters

UpperChars == <<"A","B","C","D","E","F","G","H","I","J","K","L","M","N","O","P","Q","R","S","T","U","V","W","X","Y","Z">>
LowerChars == <<"a","b","c","d","e","f","g","h","i","j","k","l","m","n","o","p","q","r","s","t","u","v","w","x","y","z">>
DigitChars == <<"0","1","2","3","4","5","6","7","8","9">>

Range(s) == {s[i] : i \in DOMAIN s}

IsUpper(c) == c \in Range(UpperChars)
IsLower(c) == c \in Range(LowerChars)
IsCased(c) == IsUpper(c) \/ IsLower(c)
IsDigit(c) == c \in Range(DigitChars)

LowerChar(c) ==
    IF IsUpper(c) THEN LowerChars[CHOOSE i \in DOMAIN UpperChars : UpperChars[i] = c] ELSE c
UpperChar(c) ==
    IF IsLower(c) THEN UpperChars[CHOOSE i \in DOMAIN LowerChars : LowerChars[i] = c] ELSE c
DigitVal(c) == (CHOOSE i \in DOMAIN DigitChars : DigitChars[i] = c) - 1

\* str.lower()
Lower(s) == [i \in DOMAIN s |-> LowerChar(s[i])]

\* str.title(): a cased character is upper-cased after an uncased one (or at
\* the start) and lower-cased after a cased one.
Title(s) ==
    [i \in DOMAIN s |->
        IF i > 1 /\ IsCased(s[i - 1]) THEN LowerChar(s[i]) ELSE UpperChar(s[i])]

\* str.replace(a, b) for single characters
ReplaceChar(s, a, b) == [i \in DOMAIN s |-> IF s[i] = a THEN b ELSE s[i]]

\* p occurs in s at position i
MatchAt(s, p, i) ==
    /\ i >= 1
    /\ i + Len(p) - 1 <= Len(s)
    /\ \A j \in 1..Len(p) : s[i + j - 1] = p[j]

\* `p in s`
Contains(s, p) == \E i \in 1..(Len(s) + 1) : MatchAt(s, p, i)

\* str.find: first position of p in s, 0 when there is none
Find(s, p) ==
    IF Contains(s, p)
    THEN CHOOSE i \in 1..(Len(s) + 1) :
            MatchAt(s, p, i) /\ \A k \in 1..(i - 1) : ~MatchAt(s, p, k)
    ELSE 0

EndsWith(s, p) == Len(s) >= Len(p) /\ MatchAt(s, p, Len(s) - Len(p) + 1)

\* str.isdigit()
IsDigitStr(s) == Len(s) > 0 /\ \A i \in DOMAIN s : IsDigit(s[i])

\* str.split(sep) for a single character
RECURSIVE SplitAcc(_, _, _, _)
SplitAcc(s, sep, i, cur) ==
    IF i > Len(s) THEN <<cur>>
    ELSE IF s[i] = sep THEN <<cur>> \o SplitAcc(s, sep, i + 1, <<>>)
    ELSE SplitAcc(s, sep, i + 1, Append(cur, s[i]))
Split(s, sep) == SplitAcc(s, sep, 1, <<>>)

\* int(digits)
RECURSIVE ParseInt(_)
ParseInt(s) ==
    IF s = <<>> THEN 0
    ELSE 10 * ParseInt(SubSeq(s, 1, Len(s) - 1)) + DigitVal(s[Len(s)])

\* re.findall(r'\d+', s)[0]: the first maximal run of digits (<<>> when none)
FirstDigitRun(s) ==
    IF \E i \in DOMAIN s : IsDigit(s[i])
    THEN LET a == CHOOSE i \in DOMAIN s :
                    IsDigit(s[i]) /\ \A k \in 1..(i - 1) : ~IsDigit(s[k])
             b == CHOOSE j \in a..Len(s) :
                    /\ \A k \in a..j : IsDigit(s[k])
                    /\ (j = Len(s) \/ ~IsDigit(s[j + 1]))
         IN  SubSeq(s, a, b)
    ELSE <<>>

\* --------------------------------------------------------- string literals

S_Unidentified == <<"U","n","i","d","e","n","t","i","f","i","e","d"," ","I","t","e","m">>
S_Unknown == <<"U","n","k","n","o","w","n">>
S_Generic == <<"G","e","n","e","r","i","c">>
S_AliItem == <<"A","l","i","E","x","p","r","e","s","s"," ","I","t","e","m"," ">>
S_AmzItem == <<"A","m","a","z","o","n"," ","I","t","e","m"," ">>
S_Dots == <<".",".",".">>
S_Html == <<".","h","t","m","l">>
S_ItemDir == <<"/","i","t","e","m","/">>
S_Dp == <<"/","d","p","/">>
S_GpProduct == <<"/","g","p","/","p","r","o","d","u","c","t","/">>
S_SchemeSep == <<":","/","/">>
S_aliexpress == <<"a","l","i","e","x","p","r","e","s","s">>
S_temu == <<"t","e","m","u">>

\* src/brain.py:300
trap_phrases ==
    { <<"c","a","p","t","c","h","a">>,
      <<"r","o","b","o","t"," ","c","h","e","c","k">>,
      <<"l","o","g","i","n">>,
      <<"a","c","c","e","s","s"," ","d","e","n","i","e","d">> }

\* src/brain.py:163
bad_phrases ==
    { <<"u","n","a","b","l","e"," ","t","o">>,
      <<"c","a","n","n","o","t"," ","d","e","t","e","r","m","i","n","e">>,
      <<"b","a","s","e","d"," ","o","n"," ","u","r","l">>,
      <<"p","l","a","c","e","h","o","l","d","e","r">>,
      <<"u","n","k","n","o","w","n">>,
      <<"g","e","n","e","r","i","c">>,
      <<"i","t","e","m">>,
      <<"p","r","o","d","u","c","t">> }

\* ------------------------------------------------------- Python values

\* A field value of a parsed JSON object. t is the Python type; v/d hold a
\* number (v/d for a float, d = 1 otherwise; a list keeps its length in v);
\* s holds the characters of a str.
FStr(s) == [t |-> "str", v |-> 0, d |-> 1, s |-> s]
FInt(n) == [t |-> "int", v |-> n, d |-> 1, s |-> <<>>]
FFloat(n, d) == [t |-> "float", v |-> n, d |-> d, s |-> <<>>]
FInf == [t |-> "inf", v |-> 0, d |-> 1, s |-> <<>>]
\* An int above the range of a float (more than 308 digits)
FBig == [t |-> "bigint", v |-> 1, d |-> 1, s |-> <<>>]
FList(n) == [t |-> "list", v |-> n, d |-> 1, s |-> <<>>]
FNone == [t |-> "none", v |-> 0, d |-> 1, s |-> <<>>]

\* A value json.loads returns: a dict (its items in f) or something else.
EmptyItems == [k \in {} |-> FNone]
PyDict(items) == [kind |-> "dict", f |-> items]
PyList == [kind |-> "list", f |-> EmptyItems]
PyNone == [kind |-> "none", f |-> EmptyItems]
EmptyDict == PyDict(EmptyItems)

IsDict(x) == x.kind = "dict"

\* dict.get(key, default)
Get(x, key, default) == IF key \in DOMAIN x.f THEN x.f[key] ELSE default

\* bool(x) for a dict or list
Truthy(x) == IF IsDict(x) THEN DOMAIN x.f # {} ELSE x.kind # "none" /\ x.kind # "list"

\* `not name` for a field value
Falsy(x) ==
    \/ x.t = "none"
    \/ x.t = "str" /\ x.s = <<>>
    \/ x.t \in {"int", "float", "list"} /\ x.v = 0

\* int(x): truncation toward zero
Trunc(n, d) == IF n >= 0 THEN n \div d ELSE -((-n) \div d)

\* --------------------------------------------------- src/brain.py:105-128

\* 5 * round(score / 5) for an integer score: score / 5 is never a tie
Round5(score) == 5 * ((score + 2) \div 5)

Max(a, b) == IF a >= b THEN a ELSE b
Min(a, b) == IF a <= b THEN a ELSE b

\* int(float('inf')) raises OverflowError, and so does score / 5 for an int
\* above the range of a float; .get on a non-dict raises AttributeError
ExtractScoreRaises(result_dict) ==
    \/ ~IsDict(result_dict)
    \/ Get(result_dict, "score", FNone).t \in {"inf", "bigint"}

extract_score_safely(result_dict) ==
    LET raw == Get(result_dict, "score", FNone)
        nums == FirstDigitRun(raw.s)
        score == IF raw.t \in {"int", "float"} THEN Trunc(raw.v, raw.d)
                 ELSE IF raw.t = "str" /\ nums # <<>> THEN ParseInt(nums)
                 ELSE DefaultScore
    IN  Max(0, Min(100, Round5(score)))

\* Mutant of get_standardized_verdict: the upper bounds are exclusive
get_standardized_verdict_Exclusive(score) ==
    IF score < 25 THEN "CRITICAL WARNING: SCAM / FAKE"
    ELSE IF score < 45 THEN "HIGH RISK: LIKELY MISLEADING"
    ELSE IF score < 65 THEN "CAUTION: MEDIOCRE QUALITY"
    ELSE IF score < 85 THEN "GOOD: SAFE TO BUY"
    ELSE "EXCELLENT: TOP TIER AUTHENTIC"

get_standardized_verdict(score) ==
    IF score <= 25 THEN "CRITICAL WARNING: SCAM / FAKE"
    ELSE IF score <= 45 THEN "HIGH RISK: LIKELY MISLEADING"
    ELSE IF score <= 65 THEN "CAUTION: MEDIOCRE QUALITY"
    ELSE IF score <= 85 THEN "GOOD: SAFE TO BUY"
    ELSE "EXCELLENT: TOP TIER AUTHENTIC"

\* --------------------------------------------------- src/brain.py:142-165

\* The first position of s holding a character of cs, Len(s) + 1 when none
FirstOf(s, cs) ==
    IF \E i \in DOMAIN s : s[i] \in cs
    THEN CHOOSE i \in DOMAIN s : s[i] \in cs /\ \A k \in 1..(i - 1) : s[k] \notin cs
    ELSE Len(s) + 1

\* urlparse(url).path
UrlPath(url) ==
    LET k == Find(url, S_SchemeSep)
        afterScheme == IF k > 0 THEN SubSeq(url, k + 3, Len(url)) ELSE url
        n == FirstOf(afterScheme, {"/", "?", "#"})
        afterNetloc == IF k > 0 THEN SubSeq(afterScheme, n, Len(afterScheme)) ELSE url
        e == FirstOf(afterNetloc, {"?", "#"})
    IN  SubSeq(afterNetloc, 1, e - 1)

KeepSegment(s) == s # <<>> /\ ~IsDigitStr(s)

\* max(segments, key=len): the first of the longest
Longest(segments) ==
    segments[CHOOSE i \in DOMAIN segments :
                /\ \A j \in DOMAIN segments : Len(segments[j]) <= Len(segments[i])
                /\ \A j \in 1..(i - 1) : Len(segments[j]) < Len(segments[i])]

\* re.search(r'/item/(\d+)\.html', url): the digits of the leftmost match
AliMatch(url) ==
    LET Hit(i) ==
            /\ MatchAt(url, S_ItemDir, i)
            /\ LET rest == SubSeq(url, i + Len(S_ItemDir), Len(url))
                   run == IF rest # <<>> /\ IsDigit(rest[1]) THEN FirstDigitRun(rest) ELSE <<>>
               IN  run # <<>> /\ MatchAt(rest, S_Html, Len(run) + 1)
    IN  IF \E i \in DOMAIN url : Hit(i)
        THEN LET i == CHOOSE i \in DOMAIN url : Hit(i) /\ \A k \in 1..(i - 1) : ~Hit(k)
             IN  FirstDigitRun(SubSeq(url, i + Len(S_ItemDir), Len(url)))
        ELSE <<>>

\* re.search(r'/(dp|gp/product)/([A-Z0-9]{10})', url): group 2 of the leftmost match
AmzMatch(url) ==
    LET Code(j) ==
            /\ j + AsinLen - 1 <= Len(url)
            /\ \A k \in j..(j + AsinLen - 1) : IsUpper(url[k]) \/ IsDigit(url[k])
        Start(i) ==
            IF MatchAt(url, S_Dp, i) /\ Code(i + Len(S_Dp)) THEN i + Len(S_Dp)
            ELSE IF MatchAt(url, S_GpProduct, i) /\ Code(i + Len(S_GpProduct))
                 THEN i + Len(S_GpProduct)
            ELSE 0
    IN  IF \E i \in DOMAIN url : Start(i) > 0
        THEN LET i == CHOOSE i \in DOMAIN url : Start(i) > 0 /\ \A k \in 1..(i - 1) : Start(k) = 0
             IN  SubSeq(url, Start(i), Start(i) + AsinLen - 1)
        ELSE <<>>

extract_name_from_url(url) ==
    LET path0 == UrlPath(url)
        path == IF EndsWith(path0, S_Html) THEN SubSeq(path0, 1, Len(path0) - 5) ELSE path0
        segments == SelectSeq(Split(path, "/"), KeepSegment)
        slug == Longest(segments)
        titled == Title(ReplaceChar(ReplaceChar(slug, "-", " "), "_", " "))
        clean_name == IF Len(titled) > MaxSlugLen
                      THEN SubSeq(titled, 1, MaxSlugLen) \o S_Dots
                      ELSE titled
    IN  IF segments # <<>> /\ Len(clean_name) > MinSlugLen THEN clean_name
        ELSE IF AliMatch(url) # <<>> THEN S_AliItem \o AliMatch(url)
        ELSE IF AmzMatch(url) # <<>> THEN S_AmzItem \o AmzMatch(url)
        ELSE S_Unidentified

\* len(name) raises TypeError for a number, name.lower() AttributeError for a list
SanitizeRaises(name) ==
    /\ ~Falsy(name)
    /\ \/ name.t \in {"int", "float", "inf", "bigint"}
       \/ name.t = "list" /\ name.v <= MaxNameLen

sanitize_product_name(name) ==
    IF Falsy(name) THEN S_Unidentified
    ELSE IF Len(name.s) > MaxNameLen THEN S_Unidentified
    ELSE IF \E p \in bad_phrases : Contains(Lower(name.s), p) THEN S_Unidentified
    ELSE name.s

\* ---------------------------------------------------- src/brain.py:93-103

\* A response text is a sequence of tokens: "prose" (words that are no
\* JSON), "fence" (```json), "ticks" (```), "ws" (whitespace), "ctl" (a
\* control character that is no whitespace, outside any JSON string) and
\* "json" (the text of one well-formed JSON value, val).
Tok(kind) == [tok |-> kind, val |-> PyNone]
Json(val) == [tok |-> "json", val |-> val]

IsWs(x) == x.tok = "ws"
NotWs(x) == x.tok # "ws"

\* str.strip() and the \s* of the pattern: whitespace off both ends
Strip(text) ==
    IF \A i \in DOMAIN text : IsWs(text[i]) THEN <<>>
    ELSE LET a == CHOOSE i \in DOMAIN text :
                    NotWs(text[i]) /\ \A k \in 1..(i - 1) : IsWs(text[k])
             b == CHOOSE j \in DOMAIN text :
                    NotWs(text[j]) /\ \A k \in (j + 1)..Len(text) : IsWs(text[k])
         IN  SubSeq(text, a, b)

\* re.search(r'```json\s*(.*?)\s*```', text, re.DOTALL): the opening is the
\* first ```json that some ``` follows, the closing the first ``` after it
\* (a later ```json starts with one).
IsClosing(x) == x.tok \in {"ticks", "fence"}
FenceOpen(text) ==
    IF \E i \in DOMAIN text :
            text[i].tok = "fence" /\ \E j \in (i + 1)..Len(text) : IsClosing(text[j])
    THEN CHOOSE i \in DOMAIN text :
            /\ text[i].tok = "fence"
            /\ \E j \in (i + 1)..Len(text) : IsClosing(text[j])
            /\ \A k \in 1..(i - 1) : text[k].tok # "fence"
    ELSE 0
FenceInterior(text) ==
    LET i == FenceOpen(text)
        j == CHOOSE j \in (i + 1)..Len(text) :
                IsClosing(text[j]) /\ \A k \in (i + 1)..(j - 1) : ~IsClosing(text[k])
    IN  Strip(SubSeq(text, i + 1, j - 1))

\* json.loads(text, strict=False) decodes a text that is one JSON value with
\* whitespace around it, and raises JSONDecodeError on any other.
LoadsOk(text) ==
    LET body == SelectSeq(text, NotWs)
    IN  Len(body) = 1 /\ body[1].tok = "json"
Loads(text) == SelectSeq(text, NotWs)[1].val

\* re.sub(r'[\x00-\x1f\x7f]', ' ', text)
Sanitize(text) == [i \in DOMAIN text |-> IF text[i].tok = "ctl" THEN Tok("ws") ELSE text[i]]

clean_and_parse_json(response_text) ==
    LET text == IF FenceOpen(response_text) > 0
                THEN FenceInterior(response_text)
                ELSE Strip(response_text)
        sanitized == Sanitize(text)
    IN  IF LoadsOk(text) THEN Loads(text)
        ELSE IF LoadsOk(sanitized) THEN Loads(sanitized)
        ELSE EmptyDict

\* ------------------------------------------------------------ the inputs

U_Shop == <<"h","t","t","p","s",":","/","/","s","h","o","p",".","e","x","a","m","p","l","e","/","a","c","m","e","-","d","r","o","n","e","-","x","1">>
U_Temu == <<"h","t","t","p","s",":","/","/","w","w","w",".","T","e","m","u",".","c","o","m","/","a","c","m","e","_","d","r","o","n","e","_","x","1",".","h","t","m","l">>

\* What the user can type into the URL box (the empty box included)
Urls == {<<>>, U_Shop, U_Temu}

\* Pages the scraping collaborator can return: `text` then `pad` times "."
Page(text, pad) == [text |-> text, pad |-> pad]
EmptyContent == Page(<<>>, 0)
P_Short == Page(<<"O","u","t"," ","o","f"," ","s","t","o","c","k">>, 38)
P_Trap == Page(<<"P","l","e","a","s","e"," ","c","o","m","p","l","e","t","e"," ","t","h","e"," ","C","A","P","T","C","H","A">>, 600)
P_Human == Page(<<"V","e","r","i","f","y"," ","y","o","u"," ","a","r","e"," ","h","u","m","a","n">>, 9980)
P_Good == Page(<<"A","c","m","e"," ","D","r","o","n","e"," ","X","1"," ","4","K"," ","c","a","m","e","r","a">>, 2000)

\* A scrape result: the markdown and the og:image of the metadata (<<>> when
\* the page has none). What scrape_website returns is <<>> for None (the
\* collaborator raised or returned nothing) or <<document>>.
Doc(markdown, og) == [markdown |-> markdown, og |-> og]
ScrapeOutcomes ==
    { <<>>,
      <<Doc(P_Short, <<>>)>>,
      <<Doc(P_Trap, <<>>)>>,
      <<Doc(P_Human, <<>>)>>,
      <<Doc(P_Good, <<"https://cdn.example/x1.jpg">>)>> }

\* Texts the reasoning collaborator can return
D_Good == PyDict([product_name |-> FStr(<<"A","c","m","e"," ","D","r","o","n","e"," ","X","1">>), score |-> FInt(72)])
D_Zombie == PyDict([product_name |-> FStr(S_Generic), score |-> FInt(35)])
T_Good == <<Json(D_Good)>>
T_Zombie == <<Tok("prose"), Tok("fence"), Tok("ws"), Json(D_Zombie), Tok("ws"), Tok("ticks"), Tok("prose")>>
T_Garbage == <<Tok("prose")>>
T_List == <<Tok("ws"), Json(PyList)>>
Texts == {T_Good, T_Zombie, T_Garbage, T_List}

\* The values FIRECRAWL_KEY can have in the secrets: none, or one of two keys
NoKey == ""
Credentials == {"fc-1", "fc-2"}
KeySets == [gemini : BOOLEAN, firecrawl : {NoKey} \cup Credentials]

\* Mutant of CacheKey: the credential is part of the key
CacheKey_WithCredential(url, _api_key) == [url |-> url, cred |-> _api_key]

\* src/brain.py:194-195: st.cache_data keys an entry by the arguments of the
\* call, the ones whose name starts with an underscore left out: by url, with
\* nothing in the place of _api_key
CacheKey(url, _api_key) == [url |-> url, cred |-> NoKey]

\* Every key a cache could use
CacheKeys == [url : Urls, cred : {NoKey} \cup Credentials]

\* generate_content returns a response with a text, or raises
Raised == [raises |-> TRUE, text |-> <<>>]
Returned(text) == [raises |-> FALSE, text |-> text]
ReasoningOutcomes == {Raised} \cup {Returned(t) : t \in Texts}

\* -------------------------------------------------------------- the state

VARIABLES
    history,        \* st.session_state.history: the records, oldest first
    playback_data,  \* st.session_state.playback_data: <<>> (None) or <<record>>
    uploader_id,    \* st.session_state.uploader_id
    url_input,      \* st.session_state.url_input: the text of the URL box
    keys,           \* what get_api_keys finds: whether GEMINI_KEY is set, and FIRECRAWL_KEY
    cache,          \* st.cache_data of scrape_website: key -> <<>> (no entry) or
                    \* <<entry>>: the result (data) and the credential of the call (by)
    pc,             \* where the script run is
    loc,            \* the locals of the script run
    obs             \* what the run has done so far (observation only)

vars == <<history, playback_data, uploader_id, url_input, keys, cache, pc, loc, obs>>
session == <<history, playback_data, uploader_id, url_input>>

\* The script is not running: it ended without a trigger ("idle"), reached
\* the display ("done"), or was stopped by st.stop() in the except handler
\* ("failed") or in get_api_keys ("stopped").
AtRest == pc \in {"idle", "done", "failed", "stopped"}

\* src/brain.py:240-243, 285-287: the locals a run starts with
InitLoc ==
    [ analysis_trigger |-> "none",
      target_url |-> <<>>,
      has_fallback_name |-> FALSE,
      fallback_name |-> <<>>,
      is_hostile |-> FALSE,
      attempt |-> 0,
      scraped_data |-> <<>>,
      scrape_error |-> TRUE,
      content |-> EmptyContent,
      result |-> EmptyDict,
      score |-> DefaultScore,
      standardized_verdict |-> "",
      product_image_url |-> <<>> ]

\* What is observed of a run: the action that started it; the history h and
\* playback pointer pb the script run starts from (after the callback), the
\* length of the history and whether a record was played back before the
\* callback; what scrape_website returned at each attempt, the collaborator
\* calls made, the parsed primary result, the text of the backup response,
\* whether a reasoning call raised, the records appended; and, kept across
\* runs, the records of the analyses completed since the last clear.
NewObs(act, h, pb) ==
    [ act |-> act,
      h0 |-> h,
      pb0 |-> pb,
      len0 |-> Len(history),
      had_playback |-> playback_data # <<>>,
      returned |-> <<>>,
      firecrawl_calls |-> 0,
      primary_calls |-> 0,
      backup_calls |-> 0,
      image_calls |-> 0,
      temp_result |-> <<>>,
      backup_text |-> <<>>,
      reasoning_raised |-> FALSE,
      appended |-> 0,
      completed |-> obs.completed ]

\* src/brain.py:22-27
Init ==
    /\ history = <<>>
    /\ playback_data = <<>>
    /\ uploader_id = 0
    /\ url_input = <<>>
    /\ keys \in [gemini : BOOLEAN, firecrawl : {NoKey, "fc-1"}]
    /\ cache = [k \in CacheKeys |-> <<>>]
    /\ pc = "idle"
    /\ loc = InitLoc
    /\ obs = [ act |-> "init", h0 |-> <<>>, pb0 |-> <<>>, len0 |-> 0,
               had_playback |-> FALSE, returned |-> <<>>,
               firecrawl_calls |-> 0, primary_calls |-> 0, backup_calls |-> 0,
               image_calls |-> 0, temp_result |-> <<>>, backup_text |-> <<>>,
               reasoning_raised |-> FALSE, appended |-> 0, completed |-> <<>> ]

\* Mutant of KeysMissing: only the reasoning key is required
KeysMissing_GeminiOnly == ~keys.gemini

\* src/brain.py:88
KeysMissing == ~keys.gemini \/ keys.firecrawl = NoKey

\* reversed(st.session_state.history)
Reversed(s) == [i \in 1..Len(s) |-> s[Len(s) + 1 - i]]

\* Mutant of PlaybackLoc: the stored result is not loaded
PlaybackLoc_NoResult(data) ==
    [InitLoc EXCEPT
        !.analysis_trigger = "playback",
        !.score = extract_score_safely(InitLoc.result),
        !.standardized_verdict = get_standardized_verdict(extract_score_safely(InitLoc.result))]

\* src/brain.py:245-251: the locals of a run that shows the playback record
PlaybackLoc(data) ==
    [InitLoc EXCEPT
        !.analysis_trigger = "playback",
        !.result = data.result,
        !.score = extract_score_safely(data.result),
        !.standardized_verdict = get_standardized_verdict(extract_score_safely(data.result))]

\* src/brain.py:206-251: the script run that follows a callback which leaves
\* pb in playback_data and presses no Analyze button
Rerun(pb, o) ==
    /\ obs' = o
    /\ IF pb = <<>>
       THEN pc' = "idle" /\ loc' = InitLoc
       ELSE IF KeysMissing
            THEN pc' = "stopped" /\ loc' = [InitLoc EXCEPT !.analysis_trigger = "playback"]
            ELSE pc' = "done" /\ loc' = PlaybackLoc(pb[1])

\* ------------------------------------------------------------ user actions

\* src/brain.py:38-39, 50-63: the button of the sidebar row `index`
load_history_item(index) ==
    /\ AtRest
    /\ index \in 0..(Len(history) - 1)
    /\ playback_data' = <<Reversed(history)[index + 1]>>
    /\ UNCHANGED <<history, uploader_id, url_input, keys, cache>>
    /\ Rerun(playback_data', NewObs("load_history_item", history', playback_data'))

\* Mutant of close_playback: the pointer is not reset
close_playback_Keeps ==
    /\ AtRest
    /\ playback_data # <<>>
    /\ playback_data' = playback_data
    /\ UNCHANGED <<history, uploader_id, url_input, keys, cache>>
    /\ Rerun(playback_data', NewObs("close_playback", history', playback_data'))

\* src/brain.py:41-42, 235
close_playback ==
    /\ AtRest
    /\ playback_data # <<>>
    /\ playback_data' = <<>>
    /\ UNCHANGED <<history, uploader_id, url_input, keys, cache>>
    /\ Rerun(playback_data', NewObs("close_playback", history', playback_data'))

\* src/brain.py:30-32, 219
clear_url_input ==
    /\ AtRest
    /\ playback_data = <<>>
    /\ url_input' = <<>>
    /\ playback_data' = <<>>
    /\ UNCHANGED <<history, uploader_id, keys, cache>>
    /\ Rerun(playback_data', NewObs("clear_url_input", history', playback_data'))

\* src/brain.py:34-36, 231
clear_img_input ==
    /\ AtRest
    /\ playback_data = <<>>
    /\ uploader_id < MaxUploads
    /\ uploader_id' = uploader_id + 1
    /\ playback_data' = <<>>
    /\ UNCHANGED <<history, url_input, keys, cache>>
    /\ Rerun(playback_data', NewObs("clear_img_input", history', playback_data'))

\* Mutant of ClearHistory: the playback pointer is not reset
ClearHistory_KeepsPlayback ==
    /\ AtRest
    /\ history' = <<>>
    /\ playback_data' = playback_data
    /\ UNCHANGED <<uploader_id, url_input, keys, cache>>
    /\ Rerun(playback_data', [NewObs("clear_history", history', playback_data') EXCEPT !.completed = <<>>])

\* src/brain.py:74-77
ClearHistory ==
    /\ AtRest
    /\ history' = <<>>
    /\ playback_data' = <<>>
    /\ UNCHANGED <<uploader_id, url_input, keys, cache>>
    /\ Rerun(playback_data', [NewObs("clear_history", history', playback_data') EXCEPT !.completed = <<>>])

\* Mutant of IsHostile: the url is not lower-cased before the test
IsHostile_CaseSensitive(url) == Contains(url, S_aliexpress) \/ Contains(url, S_temu)

\* src/brain.py:283
IsHostile(url) == Contains(Lower(url), S_aliexpress) \/ Contains(Lower(url), S_temu)

\* src/brain.py:213-217, 239-289: "Analyze Link" with u in the URL box, up to
\* the first collaborator call
AnalyzeLink(u) ==
    /\ AtRest
    /\ playback_data = <<>>
    /\ Len(history) < MaxHistory
    /\ url_input' = u
    /\ obs' = NewObs("analyze_link", history, playback_data)
    /\ IF KeysMissing
       THEN pc' = "stopped" /\ loc' = [InitLoc EXCEPT !.analysis_trigger = "link"]
       ELSE IF u = <<>>
       THEN pc' = "save" /\ loc' = [InitLoc EXCEPT !.analysis_trigger = "link"]
       ELSE /\ loc' = [InitLoc EXCEPT
                        !.analysis_trigger = "link",
                        !.target_url = u,
                        !.has_fallback_name = TRUE,
                        !.fallback_name = extract_name_from_url(u),
                        !.is_hostile = IsHostile(u)]
            /\ pc' = IF IsHostile(u) THEN "backup" ELSE "scrape"
    /\ UNCHANGED <<history, playback_data, uploader_id, keys, cache>>

\* src/brain.py:223-229, 239-259, 372: "Analyze Screenshot" with a file uploaded
AnalyzeImage ==
    /\ AtRest
    /\ playback_data = <<>>
    /\ Len(history) < MaxHistory
    /\ obs' = NewObs("analyze_image", history, playback_data)
    /\ loc' = [InitLoc EXCEPT !.analysis_trigger = "image"]
    /\ pc' = IF KeysMissing THEN "stopped" ELSE "image"
    /\ UNCHANGED <<session, keys, cache>>

\* ------------------------------------------------------ the analysis run

ContentLen(content) == Len(content.text) + content.pad

\* src/brain.py:300 on str(content).lower()
is_trap(content) == \E x \in trap_phrases : Contains(Lower(content.text), x)

\* Mutant of LoopBody: a trap page leaves the loop like a short page does
LoopBody_TrapBreaks(data, l) ==
    IF data = <<>>
    THEN [scrape_error |-> l.scrape_error, content |-> l.content, break |-> FALSE]
    ELSE IF ContentLen(data[1].markdown) < MinContentLen
    THEN [scrape_error |-> TRUE, content |-> data[1].markdown, break |-> TRUE]
    ELSE IF ~is_trap(data[1].markdown)
    THEN [scrape_error |-> FALSE, content |-> data[1].markdown, break |-> TRUE]
    ELSE [scrape_error |-> TRUE, content |-> data[1].markdown, break |-> TRUE]

\* src/brain.py:294-305: what one pass of the loop body makes of scraped_data:
\* the new scrape_error and content, and whether the loop is left (break)
LoopBody(data, l) ==
    IF data = <<>>
    THEN [scrape_error |-> l.scrape_error, content |-> l.content, break |-> FALSE]
    ELSE IF ContentLen(data[1].markdown) < MinContentLen
    THEN [scrape_error |-> TRUE, content |-> data[1].markdown, break |-> TRUE]
    ELSE IF ~is_trap(data[1].markdown)
    THEN [scrape_error |-> FALSE, content |-> data[1].markdown, break |-> TRUE]
    ELSE [scrape_error |-> l.scrape_error, content |-> data[1].markdown, break |-> FALSE]

\* src/brain.py:310, 342: where the run goes when the loop is over
AfterLoop(scrape_error, scraped_data) ==
    IF ~scrape_error /\ scraped_data # <<>> THEN "primary" ELSE "backup"

\* src/brain.py:291-307 with 194-203: one attempt. scrape_website answers
\* from the cache when it holds the url; otherwise it calls the collaborator
\* and caches what it returns (None when the collaborator raised).
ScrapeAttempt ==
    /\ pc = "scrape"
    /\ loc.attempt < MAX_RETRIES
    /\ \E fresh \in ScrapeOutcomes :
        LET key == CacheKey(loc.target_url, keys.firecrawl)
            hit == cache[key] # <<>>
            data == IF hit THEN cache[key][1].data ELSE fresh
            b == LoopBody(data, loc)
            over == b.break \/ loc.attempt + 1 = MAX_RETRIES
        IN  /\ cache' = IF hit THEN cache
                         ELSE [cache EXCEPT ![key] = <<[by |-> keys.firecrawl, data |-> fresh]>>]
            /\ loc' = [loc EXCEPT
                        !.attempt = loc.attempt + 1,
                        !.scraped_data = data,
                        !.scrape_error = b.scrape_error,
                        !.content = b.content]
            /\ obs' = [obs EXCEPT
                        !.returned = Append(obs.returned, data),
                        !.firecrawl_calls = IF hit THEN @ ELSE @ + 1]
            /\ pc' = IF over THEN AfterLoop(b.scrape_error, data) ELSE "scrape"
    /\ UNCHANGED <<session, keys>>

\* src/brain.py:194: ttl="24h": an entry of the cache expires. A run lasts
\* seconds; the expiry is taken to fall between runs.
CacheExpire(key) ==
    /\ AtRest
    /\ cache[key] # <<>>
    /\ cache' = [cache EXCEPT ![key] = <<>>]
    /\ UNCHANGED <<session, keys, pc, loc, obs>>

\* Mutant of IsZombie: the check misses "Generic" and compares the score with
\* a default of 40
IsZombie_StaleDefault(temp_result) ==
    \/ Get(temp_result, "product_name", FNone) = FStr(S_Unknown)
    \/ extract_score_safely(temp_result) = 40

\* src/brain.py:336: the zombie check (the `or` does not evaluate the score
\* when the name matches)
IsZombie(temp_result) ==
    \/ Get(temp_result, "product_name", FNone) \in {FStr(S_Unknown), FStr(S_Generic)}
    \/ extract_score_safely(temp_result) = DefaultScore

ZombieCheckRaises(temp_result) ==
    \/ ~IsDict(temp_result)
    \/ /\ Get(temp_result, "product_name", FNone) \notin {FStr(S_Unknown), FStr(S_Generic)}
       /\ ExtractScoreRaises(temp_result)

\* src/brain.py:310-342: the primary analysis of the scraped content
PrimaryCall ==
    /\ pc = "primary"
    /\ \E r \in ReasoningOutcomes :
        LET temp_result == clean_and_parse_json(r.text)
            og == loc.scraped_data[1].og
            failed == r.raises \/ ZombieCheckRaises(temp_result)
            zombie == IsZombie(temp_result)
            scrape_error == IF zombie THEN TRUE ELSE loc.scrape_error
            result == IF zombie THEN loc.result ELSE temp_result
        IN  /\ obs' = [obs EXCEPT
                        !.primary_calls = @ + 1,
                        !.temp_result = IF r.raises THEN <<>> ELSE <<temp_result>>,
                        !.reasoning_raised = @ \/ r.raises]
            /\ IF failed
               THEN /\ pc' = "failed"
                    /\ loc' = [loc EXCEPT !.product_image_url = og]
               ELSE /\ loc' = [loc EXCEPT
                                !.product_image_url = og,
                                !.scrape_error = scrape_error,
                                !.result = result]
                    /\ pc' = IF scrape_error \/ ~Truthy(result) THEN "backup" ELSE "save"
    /\ UNCHANGED <<session, keys, cache>>

\* Mutant of BackupCall: a failed deep search is logged in the history
BackupCall_LogsFailure ==
    /\ pc = "backup"
    /\ \E r \in ReasoningOutcomes :
        /\ obs' = [obs EXCEPT
                    !.backup_calls = @ + 1,
                    !.backup_text = IF r.raises THEN <<>> ELSE <<r.text>>,
                    !.reasoning_raised = @ \/ r.raises]
        /\ IF r.raises
           THEN /\ pc' = "failed"
                /\ loc' = loc
                /\ history' = Append(history, [ source |-> loc.fallback_name, score |-> 0,
                        verdict |-> "Error", standardized_verdict |-> "Error",
                        result |-> EmptyDict, image_url |-> <<>> ])
           ELSE /\ pc' = "save"
                /\ loc' = [loc EXCEPT !.result = clean_and_parse_json(r.text)]
                /\ history' = history
    /\ UNCHANGED <<playback_data, uploader_id, url_input, keys, cache>>

\* src/brain.py:342-369: the backup deep search
BackupCall ==
    /\ pc = "backup"
    /\ \E r \in ReasoningOutcomes :
        /\ obs' = [obs EXCEPT
                    !.backup_calls = @ + 1,
                    !.backup_text = IF r.raises THEN <<>> ELSE <<r.text>>,
                    !.reasoning_raised = @ \/ r.raises]
        /\ IF r.raises
           THEN pc' = "failed" /\ loc' = loc
           ELSE pc' = "save" /\ loc' = [loc EXCEPT !.result = clean_and_parse_json(r.text)]
    /\ UNCHANGED <<session, keys, cache>>

\* src/brain.py:372-395: the image analysis
ImageCall ==
    /\ pc = "image"
    /\ \E r \in ReasoningOutcomes :
        /\ obs' = [obs EXCEPT !.image_calls = @ + 1, !.reasoning_raised = @ \/ r.raises]
        /\ IF r.raises
           THEN pc' = "failed" /\ loc' = loc
           ELSE pc' = "save" /\ loc' = [loc EXCEPT !.result = clean_and_parse_json(r.text)]
    /\ UNCHANGED <<session, keys, cache>>

\* src/brain.py:401-407
FinalName(result, has_fallback_name, fallback_name) ==
    LET clean_name == sanitize_product_name(Get(result, "product_name", FStr(S_Unknown)))
    IN  IF clean_name = S_Unidentified /\ has_fallback_name /\ fallback_name # S_Unidentified
        THEN fallback_name
        ELSE clean_name

\* src/brain.py:409-416
Record(final_name, score, standardized_verdict, result, product_image_url) ==
    [ source |-> final_name,
      score |-> score,
      verdict |-> standardized_verdict,
      standardized_verdict |-> standardized_verdict,
      result |-> result,
      image_url |-> product_image_url ]

\* Mutant of AppendRecord: the record is inserted at the front
AppendRecord_AtFront(h, record) == <<record>> \o h

\* history.append(record)
AppendRecord(h, record) == Append(h, record)

\* src/brain.py:398-423: PARSE & SAVE; an exception of it ends in the handler
SaveRaises(result) ==
    \/ ExtractScoreRaises(result)
    \/ SanitizeRaises(Get(result, "product_name", FStr(S_Unknown)))

Save ==
    /\ pc = "save"
    /\ IF SaveRaises(loc.result)
       THEN /\ pc' = "failed"
            /\ UNCHANGED <<history, loc, obs>>
       ELSE LET score == extract_score_safely(loc.result)
                standardized_verdict == get_standardized_verdict(score)
                final_name == FinalName(loc.result, loc.has_fallback_name, loc.fallback_name)
                record == Record(final_name, score, standardized_verdict, loc.result,
                                 loc.product_image_url)
            IN  /\ history' = AppendRecord(history, record)
                /\ loc' = [loc EXCEPT !.score = score,
                                      !.standardized_verdict = standardized_verdict]
                /\ obs' = [obs EXCEPT !.appended = @ + 1,
                                      !.completed = Append(@, record)]
                /\ pc' = "done"
    /\ UNCHANGED <<playback_data, uploader_id, url_input, keys, cache>>

Next ==
    \/ \E index \in 0..(MaxHistory - 1) : load_history_item(index)
    \/ close_playback
    \/ clear_url_input
    \/ clear_img_input
    \/ ClearHistory
    \/ \E u \in Urls : AnalyzeLink(u)
    \/ AnalyzeImage
    \/ ScrapeAttempt
    \/ \E key \in CacheKeys : CacheExpire(key)
    \/ PrimaryCall
    \/ BackupCall
    \/ ImageCall
    \/ Save

Spec == Init /\ [][Next]_vars

\* src/brain.py:85-86: the keys are read from st.secrets on every run;
\* between two runs the operator may edit .streamlit/secrets.toml
EditSecrets ==
    /\ AtRest
    /\ \E ks \in KeySets : ks # keys /\ keys' = ks
    /\ UNCHANGED <<session, cache, pc, loc, obs>>

\* The analyses and the edits of the secrets, without the playback of
\* stored records and the resets of the inputs
NextSecrets ==
    \/ \E u \in Urls : AnalyzeLink(u)
    \/ AnalyzeImage
    \/ ScrapeAttempt
    \/ \E key \in CacheKeys : CacheExpire(key)
    \/ PrimaryCall
    \/ BackupCall
    \/ ImageCall
    \/ Save
    \/ ClearHistory
    \/ EditSecrets

SpecSecrets == Init /\ [][NextSecrets]_vars

\* ------------------------------------ the saved response, in full variety

\* Spec draws the response texts from a handful (Texts). SpecFn starts where
\* a run has reached the reasoning call whose response is saved (the image
\* call, or the backup call of a hostile url), and draws that response from
\* every kind of product_name and score.

U_TemuRoot == <<"h","t","t","p","s",":","/","/","w","w","w",".","t","e","m","u",".","c","o","m","/">>
U_AliItem == <<"h","t","t","p","s",":","/","/","w","w","w",".","a","l","i","e","x","p","r","e","s","s",".","c","o","m","/","i","t","e","m","/","1","0","0","5",".","h","t","m","l">>

\* The urls of the link runs of SpecFn (all hostile), <<>> for an image run
FnUrls == {<<>>, U_Temu, U_TemuRoot, U_AliItem}

S_NA == <<"N","/","A">>
S_Acme == <<"A","c","m","e"," ","D","r","o","n","e"," ","X","1">>
S_LongName == <<"A","c","m","e"," ","D","r","o","n","e"," ","X","1"," ","P","r","o","f","e","s","s","i","o","n","a","l"," ","C","a","m","e","r","a"," ","E","d","i","t","i","o","n">>

\* The "product_name" of the response: <<>> when the key is missing
FnNames ==
    { <<>>, <<FNone>>, <<FStr(<<>>)>>, <<FStr(S_Acme)>>, <<FStr(S_NA)>>,
      <<FStr(S_Generic)>>, <<FStr(<<"u","n","k","n","o","w","n"," ","b","r","a","n","d">>)>>,
      <<FStr(S_LongName)>>, <<FList(2)>>, <<FInt(7)>> }

\* The "score" of the response: <<>> when the key is missing
FnIntScores == {-5, 0, 2, 3, 25, 26, 45, 47, 48, 65, 66, 85, 86, 100, 103}
FnScores ==
    { <<FInt(n)>> : n \in FnIntScores } \cup
    { <<>>, <<FNone>>, <<FBig>>, <<FInf>>, <<FFloat(479, 10)>>, <<FFloat(-479, 10)>>,
      <<FStr(<<"4","8">>)>>, <<FStr(<<"8","5">>)>>, <<FStr(<<"a","b","o","u","t"," ","4","8"," ","o","f"," ","1","0","0">>)>>,
      <<FStr(<<"-","5">>)>>, <<FStr(<<"h","i","g","h">>)>>, <<FStr(<<>>)>> }

\* The JSON object with these two fields
FnDict(name, score) ==
    PyDict([k \in (IF name = <<>> THEN {} ELSE {"product_name"}) \cup
                  (IF score = <<>> THEN {} ELSE {"score"})
            |-> IF k = "product_name" THEN name[1] ELSE score[1]])

T_Null == <<Json(PyNone)>>
T_Ctl == <<Tok("ctl"), Json(D_Good)>>
T_Unclosed == <<Tok("fence"), Tok("ws"), Json(D_Good)>>
T_Prose == <<Tok("prose"), Tok("ws"), Json(D_Good), Tok("ws"), Tok("prose")>>
FnTexts ==
    { <<Json(FnDict(n, s))>> : n \in FnNames, s \in FnScores } \cup
    { T_Zombie, T_Garbage, T_List, T_Null, T_Ctl, T_Unclosed, T_Prose, <<>> }

\* src/brain.py:239-289, 372: the run has reached the call
FnInit ==
    /\ history = <<>>
    /\ playback_data = <<>>
    /\ uploader_id = 0
    /\ url_input \in FnUrls
    /\ keys = [gemini |-> TRUE, firecrawl |-> "fc-1"]
    /\ cache = [k \in CacheKeys |-> <<>>]
    /\ pc = IF url_input = <<>> THEN "image" ELSE "backup"
    /\ loc = IF url_input = <<>>
             THEN [InitLoc EXCEPT !.analysis_trigger = "image"]
             ELSE [InitLoc EXCEPT
                    !.analysis_trigger = "link",
                    !.target_url = url_input,
                    !.has_fallback_name = TRUE,
                    !.fallback_name = extract_name_from_url(url_input),
                    !.is_hostile = IsHostile(url_input)]
    /\ obs = [ act |-> IF url_input = <<>> THEN "analyze_image" ELSE "analyze_link",
               h0 |-> <<>>, pb0 |-> <<>>, len0 |-> 0,
               had_playback |-> FALSE, returned |-> <<>>,
               firecrawl_calls |-> 0, primary_calls |-> 0, backup_calls |-> 0,
               image_calls |-> 0, temp_result |-> <<>>, backup_text |-> <<>>,
               reasoning_raised |-> FALSE, appended |-> 0, completed |-> <<>> ]

\* src/brain.py:364-369, 391-395: the call returns `text` and the text is parsed
FnRespond ==
    /\ pc \in {"image", "backup"}
    /\ \E text \in FnTexts :
        /\ obs' = [obs EXCEPT
                    !.backup_calls = IF pc = "backup" THEN @ + 1 ELSE @,
                    !.image_calls = IF pc = "image" THEN @ + 1 ELSE @,
                    !.backup_text = <<text>>]
        /\ loc' = [loc EXCEPT !.result = clean_and_parse_json(text)]
        /\ pc' = "save"
    /\ UNCHANGED <<session, keys, cache>>

NextFn ==
    \/ FnRespond
    \/ Save

SpecFn == FnInit /\ [][NextFn]_vars

\* ------------------------------------------------------------- claims

Last(s) == s[Len(s)]

\* The run is a link analysis of a url that was not empty
LinkRun == loc.analysis_trigger = "link" /\ loc.target_url # <<>>

\* C1 (case): the primary result of this run has product_name "Generic" and
\* a normalized score equal to the default
C1_PrimaryIsZombie ==
    /\ LinkRun
    /\ obs.temp_result # <<>>
    /\ IsDict(obs.temp_result[1])
    /\ Get(obs.temp_result[1], "product_name", FNone) = FStr(S_Generic)
    /\ extract_score_safely(obs.temp_result[1]) = DefaultScore

\* C1: after a primary result with product_name "Generic" and score 35 the
\* backup deep search is called exactly once in that run (never twice, and
\* once by the time the run saves, completes or fails), and the record the
\* run appends is built from the text the backup call returned.
C1_ZombieFallsBackOnce ==
    C1_PrimaryIsZombie =>
        /\ obs.primary_calls = 1
        /\ obs.backup_calls <= 1
        /\ pc \in {"save", "done", "failed"} => obs.backup_calls = 1
        /\ pc = "done" =>
            LET out == clean_and_parse_json(obs.backup_text[1])
            IN  /\ obs.appended = 1
                /\ Last(history).result = out
                /\ Last(history).score = extract_score_safely(out)
                /\ Last(history).source = FinalName(out, TRUE, extract_name_from_url(loc.target_url))

\* C1 witness: a completed run whose primary result was that zombie and whose
\* record holds a backup result that differs from it
C1_Witness ==
    /\ C1_PrimaryIsZombie
    /\ pc = "done"
    /\ Last(history).result # obs.temp_result[1]
    /\ Last(history).score # DefaultScore

\* The block indicators the specification lists (section 4.4)
SpecIndicators ==
    trap_phrases \cup {<<"v","e","r","i","f","y"," ","y","o","u"," ","a","r","e"," ","h","u","m","a","n">>}

TooShort(data) == data # <<>> /\ ContentLen(data[1].markdown) < MinContentLen
HasIndicator(data, phrases) ==
    data # <<>> /\ \E x \in phrases : Contains(Lower(data[1].markdown.text), x)

\* The scrape loop of a link run is over
LoopOver == LinkRun /\ obs.returned # <<>> /\ pc # "scrape"

ClaimHostile(url) ==
    \E m \in {S_aliexpress, S_temu} : Contains(Lower(url), m)

\* C3: in a link run of a hostile url scrape_website is never called, the
\* collaborator is never reached, no primary call is made, the run goes
\* straight to the backup deep search, and the record a completed run appends
\* has a non-empty name and a score that is a multiple of 5.
C3_HostileGoesToBackup ==
    (LinkRun /\ ClaimHostile(loc.target_url)) =>
        /\ obs.returned = <<>>
        /\ obs.firecrawl_calls = 0
        /\ obs.primary_calls = 0
        /\ pc \in {"backup", "save", "done", "failed"}
        /\ pc # "backup" => obs.backup_calls = 1
        /\ pc = "done" =>
            /\ obs.appended = 1
            /\ Last(history).source # <<>>
            /\ Last(history).score \in 0..100
            /\ Last(history).score % 5 = 0

\* C3 witness: a completed run of a hostile url
C3_Witness ==
    /\ LinkRun
    /\ ClaimHostile(loc.target_url)
    /\ pc = "done"
    /\ obs.backup_calls = 1
    /\ Last(history).result = loc.result

\* C4 (as stated): a response that is shorter than the minimum length, or
\* holds a block indicator of the specification in any case, leaves
\* scrape_error true and is never passed to the primary call.
C4_Original ==
    (/\ LinkRun
     /\ obs.returned # <<>>
     /\ \/ TooShort(Last(obs.returned))
        \/ HasIndicator(Last(obs.returned), SpecIndicators))
        => /\ loc.scrape_error
           /\ pc # "primary"
           /\ obs.primary_calls = 0

\* C5 (as stated): a link or image run in which no reasoning call raised
\* never fails, and when it completes it has appended exactly one record.
C5_Original ==
    (loc.analysis_trigger \in {"link", "image"} /\ ~obs.reasoning_raised) =>
        /\ pc # "failed"
        /\ pc = "done" => obs.appended = 1

\* C6: a run that failed appended no record and left the history and the
\* playback pointer as they were when it started; so does a run in progress
\* until it saves.
C6_FailedRunLeavesSession ==
    (pc \in {"failed", "scrape", "primary", "backup", "image", "save"}) =>
        /\ obs.appended = 0
        /\ history = obs.h0
        /\ playback_data = obs.pb0

\* C6 witness: a run failed on a raising reasoning call with a record in the
\* history
C6_Witness ==
    /\ pc = "failed"
    /\ obs.reasoning_raised
    /\ history # <<>>
    /\ history = obs.h0

\* C7: the history always is the sequence of the records of the analyses
\* completed since the last clear, in completion order, and the sidebar view
\* starts with the latest; every step leaves the history as it is, appends
\* one record at its end, or empties it.
C7_AppendOnlyOrdered ==
    /\ [](/\ history = obs.completed
          /\ history # <<>> => Reversed(history)[1] = Last(obs.completed))
    /\ [][\/ history' = history
          \/ history' = <<>>
          \/ /\ Len(history') = Len(history) + 1
             /\ SubSeq(history', 1, Len(history)) = history]_vars

\* C7 witness: two analyses completed in a row, with different records
C7_Witness ==
    /\ pc = "done"
    /\ obs.appended = 1
    /\ Len(history) >= 2
    /\ history[1] # history[2]
    /\ Reversed(history)[1] = Last(obs.completed)

\* C8: after "Clear History" the history and the playback pointer are both
\* empty, whatever they were before.
C8_ClearIsAtomic ==
    obs.act = "clear_history" =>
        /\ history = <<>>
        /\ playback_data = <<>>
        /\ pc = "idle"

\* C8 witness: a clear while a record was played back
C8_Witness ==
    /\ obs.act = "clear_history"
    /\ obs.had_playback
    /\ obs.len0 > 0
    /\ history = <<>>

\* C9: a playback run calls neither scrape_website nor the reasoning
\* collaborator, appends nothing and leaves the history as it was; the result
\* it shows is the stored record's result, the score extract_score_safely of
\* it and the verdict get_standardized_verdict of that score.
C9_ReplayBypassesPipeline ==
    loc.analysis_trigger = "playback" =>
        /\ obs.returned = <<>>
        /\ obs.firecrawl_calls = 0
        /\ obs.primary_calls + obs.backup_calls + obs.image_calls = 0
        /\ obs.appended = 0
        /\ history = obs.h0
        /\ Len(history) = obs.len0
        /\ pc \in {"done", "stopped"}
        /\ pc = "done" =>
            /\ playback_data # <<>>
            /\ loc.result = playback_data[1].result
            /\ loc.score = extract_score_safely(playback_data[1].result)
            /\ loc.score = playback_data[1].score
            /\ loc.standardized_verdict = get_standardized_verdict(loc.score)

\* C9 witness: a playback of a record whose score is not the default
C9_Witness ==
    /\ loc.analysis_trigger = "playback"
    /\ pc = "done"
    /\ loc.score # DefaultScore
    /\ loc.result = playback_data[1].result

\* C10: the playback pointer holds at most one record; it is empty after
\* close, New Link and New Upload, and during and after an analysis; a step
\* that puts a record in it is the selection of a history item, and the
\* record is that item.
C10_PlaybackLifecycle ==
    /\ [](/\ Len(playback_data) <= 1
          /\ obs.act \in {"close_playback", "clear_url_input", "clear_img_input",
                          "analyze_link", "analyze_image"} => playback_data = <<>>)
    /\ [][(playback_data' # playback_data /\ playback_data' # <<>>) =>
            /\ obs'.act = "load_history_item"
            /\ \E i \in DOMAIN history : playback_data' = <<history[i]>>]_vars

\* C10 witness: a playback that was closed
C10_Witness ==
    /\ obs.act = "close_playback"
    /\ obs.had_playback
    /\ playback_data = <<>>

\* The names the specification lists as junk, in lower case
ClaimJunkNames ==
    { <<"u","n","k","n","o","w","n">>, <<"g","e","n","e","r","i","c">>, <<"n","/","a">> }

\* C11 (as stated): the source of every record of the history is non-empty
\* and is not a junk name ("Unknown", "Generic", "N/A" in any case).
C11_Original ==
    \A i \in DOMAIN history :
        /\ history[i].source # <<>>
        /\ Lower(history[i].source) \notin ClaimJunkNames

\* The verdict table of the specification, upper bounds inclusive
ClaimBucket(score) ==
    IF score \in 0..25 THEN "CRITICAL WARNING: SCAM / FAKE"
    ELSE IF score \in 26..45 THEN "HIGH RISK: LIKELY MISLEADING"
    ELSE IF score \in 46..65 THEN "CAUTION: MEDIOCRE QUALITY"
    ELSE IF score \in 66..85 THEN "GOOD: SAFE TO BUY"
    ELSE IF score \in 86..100 THEN "EXCELLENT: TOP TIER AUTHENTIC"
    ELSE "no verdict"

\* C12: every record of the history has a score in 0..100 that is a
\* multiple of 5, and its verdict (both verdict fields) is the bucket of that
\* score in the table with inclusive upper bounds.
C12_StoredScoreAndVerdict ==
    \A i \in DOMAIN history :
        /\ history[i].score \in 0..100
        /\ history[i].score % 5 = 0
        /\ history[i].verdict = ClaimBucket(history[i].score)
        /\ history[i].standardized_verdict = ClaimBucket(history[i].score)

\* C12 witness: a record stored at the boundary score 85, rounded from a raw
\* score of 86
C12_Witness ==
    /\ pc = "done"
    /\ Get(loc.result, "score", FNone) = FInt(86)
    /\ Last(history).score = 85
    /\ Last(history).verdict = "GOOD: SAFE TO BUY"

\* The nearest multiple of 5 of an integer, clamped to [0,100]
ClaimNormal(n) ==
    IF n < 0 THEN 0
    ELSE IF n > 100 THEN 100
    ELSE CHOOSE m \in {5 * k : k \in 0..20} : m - n \in -2..2

\* The run has been through PARSE & SAVE with a JSON object whose
\* product_name cannot make it fail
ScoreNormalized ==
    /\ pc \in {"done", "failed"}
    /\ IsDict(loc.result)
    /\ ~SanitizeRaises(Get(loc.result, "product_name", FStr(S_Unknown)))

\* C13 (as stated): for an integer score, a textual score and a missing
\* score, extract_score_safely returns (the run does not fail) an integer in
\* 0..100 that is a multiple of 5: for an integer the nearest multiple of 5
\* clamped to [0,100], for text that of the first run of digits, and for a
\* missing or digit-free score the default 35.
C13_Original ==
    LET raw == Get(loc.result, "score", FNone)
        nums == FirstDigitRun(raw.s)
    IN  (ScoreNormalized /\ raw.t \in {"int", "bigint", "str", "none"}) =>
            /\ pc = "done"
            /\ loc.score \in 0..100
            /\ loc.score % 5 = 0
            /\ raw.t = "int" => loc.score = ClaimNormal(raw.v)
            /\ (raw.t = "str" /\ nums # <<>>) => loc.score = ClaimNormal(ParseInt(nums))
            /\ (raw.t = "none" \/ (raw.t = "str" /\ nums = <<>>)) =>
                    loc.score = ClaimNormal(DefaultScore)

\* C14 (as stated): whatever text the reasoning call returned,
\* clean_and_parse_json returned a key-value mapping, the empty one when the
\* text holds no JSON at all, and the lookups of PARSE & SAVE on it do not
\* fail for want of a mapping.
C14_Original ==
    obs.backup_text # <<>> =>
        /\ IsDict(loc.result)
        /\ (\A i \in DOMAIN obs.backup_text[1] : obs.backup_text[1][i].tok # "json")
                => loc.result = EmptyDict
        /\ pc = "failed" =>
                \/ ExtractScoreRaises(loc.result) /\ IsDict(loc.result)
                \/ SanitizeRaises(Get(loc.result, "product_name", FStr(S_Unknown)))

\* The calls this run made of the reasoning step that raised (a raise ends
\* the run, so it is the last step the run reached)
CallsOfRaisedStep ==
    IF loc.analysis_trigger = "image" THEN obs.image_calls
    ELSE IF obs.backup_calls > 0 THEN obs.backup_calls
    ELSE obs.primary_calls

\* C15 (as stated): a run fails on a raising reasoning call only after the
\* call was made again under an alternate model identifier, that is after at
\* least two calls of that step.
C15_Original ==
    (pc = "failed" /\ obs.reasoning_raised) => CallsOfRaisedStep >= 2

\* The step is the press of "Analyze Link" / "Analyze Screenshot": of the
\* steps taken at rest, the only ones that leave the keys and the cache alone
\* and start a run of that trigger
PressesAnalyze(trigger) ==
    /\ AtRest
    /\ keys' = keys
    /\ cache' = cache
    /\ obs'.act = trigger

\* C16: a run that get_api_keys stopped has called neither scrape_website nor
\* the reasoning collaborator and has left the history as it was; and an
\* analysis started without the reasoning key, or a URL analysis started
\* without the scraping key, is stopped at once, with the history and the
\* cache untouched.
C16_MissingKeyStopsRun ==
    /\ [](pc = "stopped" =>
            /\ obs.returned = <<>>
            /\ obs.firecrawl_calls = 0
            /\ obs.primary_calls + obs.backup_calls + obs.image_calls = 0
            /\ obs.appended = 0
            /\ history = obs.h0)
    /\ [][(\/ PressesAnalyze("analyze_link") /\ (~keys.gemini \/ keys.firecrawl = NoKey)
           \/ PressesAnalyze("analyze_image") /\ ~keys.gemini)
            => /\ pc' = "stopped"
               /\ history' = history]_vars

\* C16 witness: a URL analysis stopped for want of the scraping key, with a
\* record in the history
C16_Witness ==
    /\ pc = "stopped"
    /\ obs.act = "analyze_link"
    /\ url_input # <<>>
    /\ keys.gemini
    /\ keys.firecrawl = NoKey
    /\ history # <<>>
    /\ history = obs.h0

\* C17 (as stated): in a URL run whose first attempt reached the scraping
\* collaborator (nothing was cached for the url), every attempt of the loop
\* invoked the collaborator; and a run whose first attempt returned nothing or
\* a trap page makes a further attempt whose outcome is the collaborator's
\* new answer, so the attempts of one run can differ.
C17_Original ==
    (LinkRun /\ obs.firecrawl_calls >= 1) =>
        obs.firecrawl_calls = Len(obs.returned)

\* Acquisition ended Succeeded in the terms of the specification: the last
\* attempt returned a page that is neither too short nor holds a block
\* indicator (a hostile url is never acquired)
ClaimAcquired ==
    /\ obs.returned # <<>>
    /\ Last(obs.returned) # <<>>
    /\ ~TooShort(Last(obs.returned))
    /\ ~HasIndicator(Last(obs.returned), SpecIndicators)

\* A zombie in the terms of the specification: nothing was parsed (no
\* mapping, or an empty one), or the name is a placeholder, or the normalized
\* score is the default
ClaimZombie(temp_result) ==
    \/ ~IsDict(temp_result)
    \/ temp_result = EmptyDict
    \/ Get(temp_result, "product_name", FNone) \in {FStr(S_Unknown), FStr(S_Generic)}
    \/ ~ExtractScoreRaises(temp_result) /\ extract_score_safely(temp_result) = DefaultScore

\* C18 (as stated): a URL run makes at most one primary and at most one
\* backup call, the backup call never precedes the primary call, and a run
\* that ended without a raising reasoning call has made the backup call if
\* and only if acquisition did not succeed or the primary result was a
\* zombie; an image run that got past its call made exactly that one call.
C18_Original ==
    /\ LinkRun =>
        /\ obs.primary_calls <= 1
        /\ obs.backup_calls <= 1
        /\ obs.image_calls = 0
        /\ pc = "primary" => obs.backup_calls = 0
        /\ (pc \in {"done", "failed"} /\ ~obs.reasoning_raised) =>
            (obs.backup_calls = 1 <=>
                \/ ~ClaimAcquired
                \/ obs.temp_result # <<>> /\ ClaimZombie(obs.temp_result[1]))
    /\ (loc.analysis_trigger = "image" /\ pc \in {"save", "done", "failed"}) =>
        /\ obs.image_calls = 1
        /\ obs.primary_calls + obs.backup_calls = 0

\* C19: whenever the playback pointer holds a record, that record is an
\* element of the history.
C19_PlaybackRecordInHistory ==
    playback_data # <<>> => \E i \in DOMAIN history : history[i] = playback_data[1]

\* C19 witness: the older of two different records is played back
C19_Witness ==
    /\ playback_data # <<>>
    /\ Len(history) = 2
    /\ history[1] # history[2]
    /\ playback_data[1] = history[1]
    /\ pc = "done"

\* The keys under which the cache holds an entry for the url
EntriesFor(url) == {k \in CacheKeys : k.url = url /\ cache[k] # <<>>}

\* C20: the cache holds at most one entry per url, under a key that has no
\* credential in it; and a call of scrape_website for a url that has an entry
\* reaches no collaborator, leaves the cache as it is and returns the entry's
\* result, whichever credential the call is made with.
C20_CacheKeyedByUrl ==
    /\ [](\A k \in CacheKeys : cache[k] # <<>> =>
            /\ k.cred = NoKey
            /\ EntriesFor(k.url) = {k})
    /\ [][(/\ pc = "scrape"
           /\ obs'.returned # obs.returned
           /\ EntriesFor(loc.target_url) # {})
            => /\ obs'.firecrawl_calls = obs.firecrawl_calls
               /\ cache' = cache
               /\ \E k \in EntriesFor(loc.target_url) :
                    Last(obs'.returned) = cache[k][1].data]_vars

\* C20 witness: a run whose lookup was answered with the page that a call
\* under another credential had fetched, without a call of its own
C20_Witness ==
    /\ LinkRun
    /\ obs.returned # <<>>
    /\ obs.firecrawl_calls = 0
    /\ \E k \in EntriesFor(loc.target_url) :
        /\ cache[k][1].by # keys.firecrawl
        /\ cache[k][1].data # <<>>
        /\ Last(obs.returned) = cache[k][1].data

\* The span from the first "{" to the last "}" of a text: prose holds no
\* brace, so it runs from the first JSON object to the last
ClaimSpan(text) ==
    LET objs == {i \in DOMAIN text : text[i].tok = "json" /\ IsDict(text[i].val)}
    IN  IF objs = {} THEN <<>>
        ELSE SubSeq(text, CHOOSE i \in objs : \A j \in objs : i <= j,
                          CHOOSE i \in objs : \A j \in objs : i >= j)

\* The recovery ladder of the specification
ClaimParse(response_text) ==
    LET text == IF FenceOpen(response_text) > 0
                THEN FenceInterior(response_text)
                ELSE Strip(response_text)
        sanitized == Sanitize(text)
        span == ClaimSpan(response_text)
    IN  IF LoadsOk(text) THEN Loads(text)
        ELSE IF LoadsOk(sanitized) THEN Loads(sanitized)
        ELSE IF LoadsOk(span) THEN Loads(span)
        ELSE EmptyDict

\* C21 (as stated): the parsed result of a response is what the ladder
\* gives: the interior of the ```json block or else the trimmed text, then
\* the same with control characters replaced, then the span from the first
\* "{" to the last "}", and the empty result only when all three fail; so a
\* JSON object between prose, without a fence, parses to that object.
C21_Original ==
    obs.backup_text # <<>> => loc.result = ClaimParse(obs.backup_text[1])

====
